---- MODULE Spec2Model ----
(***************************************************************************)
(* Model of the devtools pane of css-layout-mode                           *)
(* (src/entrypoints/devtools-pane/App.svelte): the layout-mode classifier  *)
(* evaluateCssLayoutMode and the panel around it (update, its eval         *)
(* callback, the derived layoutMode and the onMount listener).             *)
(*                                                                         *)
(* A JavaScript object is a TLA+ function from its own keys to values; a   *)
(* key that is absent from the object is absent from the DOMAIN.  The      *)
(* fields id, className, textContent and attributes of the eval result are *)
(* copied through by the panel and read by no code modelled here; they are *)
(* left out of the records.                                                *)
(***************************************************************************)
EXTENDS Integers, Sequences, FiniteSets, TLC

VARIABLES
    element,         \* line 4:  the heading string ($state "")
    elementDetails,  \* line 5:  the last successful eval result ($state null)
    selected,        \* $0 of the inspected window
    pending,         \* inspectedWindow.eval requests in flight, oldest first
    mounted,         \* whether onMount has run
    uncaught         \* the error thrown out of the last eval callback, or Null

vars == <<element, elementDetails, selected, pending, mounted, uncaught>>

\* Largest number of eval requests in flight at once.
MaxPending == 2

\* JavaScript null / undefined.
Null == [null |-> TRUE]

\* The TypeError of reading a property of undefined.
TypeError == [thrown |-> "TypeError"]

----------------------------------------------------------------------------
(* Property access on a computed-style object.                             *)

\* obj.key === value
Is(obj, key, value) == key \in DOMAIN obj /\ obj[key] = value

\* obj.key as a condition: undefined and "" are falsy
Truthy(obj, key) == key \in DOMAIN obj /\ obj[key] # ""

----------------------------------------------------------------------------
(* The fixed descriptive texts of evaluateCssLayoutMode.                   *)

PositionedDetails ==
    "Out-of-flow positioning scheme where the box is removed from normal flow and positioned relative to its containing block. Uses properties like top, left, right, bottom, and z-index. Creates a new positioning context for descendants."

FlexboxDetails ==
    "A flexible box layout that establishes an independent flex formatting context. Child elements become flex items arranged along main and cross axes. Uses properties like flex-direction, justify-content, align-items, and flex properties on children."

GridDetails ==
    "A grid-based layout that establishes an independent grid formatting context. Child elements become grid items positioned within defined grid cells. Uses properties like grid-template-columns, grid-template-rows, grid-area, and grid-placement properties."

TableDetails ==
    "Table-based layout that establishes a table formatting context. Elements behave like table parts (rows, cells, etc.). Can create anonymous boxes to ensure proper table structure. Useful for tabular data but less flexible than modern layout methods."

FloatDetails ==
    "A partially out-of-flow positioning scheme where the box is first laid out in normal flow, then taken out and shifted left or right. Content flows around floated elements. Can be cleared with the clear property. Creates a new block formatting context when contained with display: flow-root."

BlockDetails ==
    "Standard block-level flow layout in the normal flow - elements stack vertically in the block direction. Creates a block formatting context containing block-level boxes. Takes up the full width available and creates line breaks before and after."

InlineDetails ==
    "Standard inline-level flow layout in the normal flow - elements flow horizontally with text in the inline direction. Participates in an inline formatting context. Does not create line breaks before or after. Margins/paddings only apply horizontally, not vertically."

InlineBlockDetails ==
    "Hybrid flow layout - behaves like a block container for its contents but flows inline like an inline element. Creates a block formatting context while participating in the surrounding inline formatting context. Supports vertical margins/padding unlike inline elements."

DefaultDetails ==
    "Default document flow layout. Part of the normal flow positioning scheme where boxes are laid out one after another in the document's writing mode. May participate in block or inline formatting contexts depending on the display value."

----------------------------------------------------------------------------
(* evaluateCssLayoutMode, lines 21-121: the conditions of its branches,    *)
(* the verdict each branch returns, and the function itself.               *)

\* Mutant of IsPositioned: the sticky test is forgotten.
IsPositionedNoSticky(cs) ==
    \/ Is(cs, "position", "absolute")
    \/ Is(cs, "position", "fixed")

\* lines 23-27
IsPositioned(cs) ==
    \/ Is(cs, "position", "absolute")
    \/ Is(cs, "position", "fixed")
    \/ Is(cs, "position", "sticky")

\* lines 37-40
IsFlex(cs) ==
    \/ Is(cs, "display", "flex")
    \/ Is(cs, "display", "inline-flex")

\* lines 49-52
IsGrid(cs) ==
    \/ Is(cs, "display", "grid")
    \/ Is(cs, "display", "inline-grid")

\* Mutant of IsTable: the table-cell test is forgotten.
IsTableNoCell(cs) ==
    \/ Is(cs, "display", "table")
    \/ Is(cs, "display", "inline-table")
    \/ Is(cs, "display", "table-row")

\* lines 61-66
IsTable(cs) ==
    \/ Is(cs, "display", "table")
    \/ Is(cs, "display", "inline-table")
    \/ Is(cs, "display", "table-row")
    \/ Is(cs, "display", "table-cell")

\* Mutant of IsFloat: the comparison with "none" is forgotten.
IsFloatAnyValue(cs) == Truthy(cs, "float")

\* lines 75-78
IsFloat(cs) ==
    /\ Truthy(cs, "float")
    /\ ~Is(cs, "float", "none")

\* Mutant of FallbackVariant: ?? in place of ||, so that only a missing
\* display gives "unknown".
FallbackVariantNullish(cs) ==
    IF "display" \in DOMAIN cs THEN cs["display"] ELSE "unknown"

\* line 118: element.computedStyles.display || "unknown"
FallbackVariant(cs) ==
    IF Truthy(cs, "display") THEN cs["display"] ELSE "unknown"

\* Mutant of FallbackVerdict: the final return is missing and the function
\* falls off its end.
FallbackVerdictMissing(cs) == Null

\* Mutant of FallbackVerdict: the description quotes the display value.
FallbackVerdictEcho(cs) ==
    [mode |-> "Flow", variant |-> FallbackVariant(cs),
     details |-> FallbackVariant(cs)]

\* lines 116-120
FallbackVerdict(cs) ==
    [mode |-> "Flow", variant |-> FallbackVariant(cs), details |-> DefaultDetails]

\* lines 21-121
evaluateCssLayoutMode(el) ==
    IF "computedStyles" \notin DOMAIN el
    THEN TypeError   \* element.computedStyles is undefined: line 24 throws
    ELSE LET cs == el["computedStyles"] IN
         IF IsPositioned(cs)
         THEN [mode |-> "Positioned", variant |-> cs["position"],
               details |-> PositionedDetails]
         ELSE IF IsFlex(cs)
         THEN [mode |-> "Flexbox", variant |-> cs["display"],
               details |-> FlexboxDetails]
         ELSE IF IsGrid(cs)
         THEN [mode |-> "Grid", variant |-> cs["display"],
               details |-> GridDetails]
         ELSE IF IsTable(cs)
         THEN [mode |-> "Table", variant |-> cs["display"],
               details |-> TableDetails]
         ELSE IF IsFloat(cs)
         THEN [mode |-> "Float", variant |-> cs["float"],
               details |-> FloatDetails]
         ELSE IF Is(cs, "display", "block")
         THEN [mode |-> "Flow", variant |-> "block", details |-> BlockDetails]
         ELSE IF Is(cs, "display", "inline")
         THEN [mode |-> "Flow", variant |-> "inline", details |-> InlineDetails]
         ELSE IF Is(cs, "display", "inline-block")
         THEN [mode |-> "Flow", variant |-> "inline-block",
               details |-> InlineBlockDetails]
         ELSE FallbackVerdict(cs)

----------------------------------------------------------------------------
(* The inspected page.                                                     *)

PositionValues == {"static", "relative", "absolute", "fixed", "sticky"}

DisplayValues ==
    {"flex", "inline-flex", "grid", "inline-grid",
     "table", "inline-table", "table-row", "table-cell",
     "block", "inline", "inline-block",
     "none", "flow-root", "contents", ""}

FloatValues == {"none", "left", "right", "inline-start", ""}

StyleValues(key) ==
    CASE key = "position" -> PositionValues
      [] key = "display"  -> DisplayValues
      [] key = "float"    -> FloatValues

\* Every computed-style mapping over the three properties the classifier
\* reads, each of them present or absent.
Snapshots ==
    UNION { { cs \in [keys -> PositionValues \cup DisplayValues \cup FloatValues] :
                \A k \in keys : cs[k] \in StyleValues(k) } :
            keys \in SUBSET {"position", "display", "float"} }

ElementNode(tag, cs) == [nodeType |-> "element", tagName |-> tag, style |-> cs]

\* A node that is no Element (a text node): it has no attributes and
\* getComputedStyle rejects it, so the inspected script throws on it.
TextNode == [nodeType |-> "text"]

\* $0 when nothing has been selected.
NoNode == [nodeType |-> "none"]

\* The nodes the user moves the selection between.
PageNodes ==
    { ElementNode("DIV", [display |-> "block"]),
      ElementNode("SPAN", [position |-> "absolute", display |-> "grid"]),
      ElementNode("IMG", [display |-> "inline", float |-> "left"]),
      TextNode }

\* String.prototype.toLowerCase on the tag names of the page.
toLowerCase(s) ==
    CASE s = "DIV"  -> "div"
      [] s = "SPAN" -> "span"
      [] s = "IMG"  -> "img"
      [] OTHER      -> s

\* lines 125-150: the script run in the inspected window, and what eval
\* hands to the callback.
InspectedScript(el) ==
    IF el = NoNode
    THEN [isException |-> FALSE, result |-> [error |-> "No element selected"]]
    ELSE IF el.nodeType # "element"
    THEN [isException |-> TRUE, result |-> TypeError]
    ELSE [isException |-> FALSE,
          result |-> [tagName |-> el.tagName, computedStyles |-> el.style]]

----------------------------------------------------------------------------
(* The panel.                                                              *)

\* line 179
layoutMode ==
    IF elementDetails # Null THEN evaluateCssLayoutMode(elementDetails) ELSE Null

SetField(obj, key, value) ==
    [k \in DOMAIN obj \cup {key} |-> IF k = key THEN value ELSE obj[k]]

\* lines 123-168: update() sends one eval request
update == pending' = Append(pending, [phase |-> "sent"])

Init ==
    /\ element = ""
    /\ elementDetails = Null
    /\ selected \in PageNodes \cup {NoNode}
    /\ pending = <<>>
    /\ mounted = FALSE
    /\ uncaught = Null

\* lines 181-188
OnMount ==
    /\ ~mounted
    /\ mounted' = TRUE
    /\ update
    /\ UNCHANGED <<element, elementDetails, selected, uncaught>>

\* lines 185-187: the user selects another node in the Elements panel
SelectionChanged(node) ==
    /\ mounted
    /\ Len(pending) < MaxPending
    /\ selected' = node
    /\ update
    /\ UNCHANGED <<element, elementDetails, mounted, uncaught>>

\* The inspected window runs the oldest request not yet run, on the $0 of
\* that moment.
Evaluate ==
    /\ \E i \in 1..Len(pending) :
          /\ pending[i].phase = "sent"
          /\ \A j \in 1..(i - 1) : pending[j].phase = "done"
          /\ pending' = [pending EXCEPT
                           ![i] = [phase |-> "done",
                                   outcome |-> InspectedScript(selected)]]
    /\ UNCHANGED <<element, elementDetails, selected, mounted, uncaught>>

\* lines 151-167: the eval callback
Callback ==
    /\ pending # <<>>
    /\ Head(pending).phase = "done"
    /\ pending' = Tail(pending)
    /\ LET result == Head(pending).outcome.result
           isException == Head(pending).outcome.isException
       IN IF isException
          THEN /\ element' = "Error getting element"
               /\ UNCHANGED elementDetails
               /\ uncaught' = Null
          ELSE /\ element' = IF "tagName" \in DOMAIN result
                             THEN toLowerCase(result["tagName"])
                             ELSE "No element selected"
               /\ LET v == evaluateCssLayoutMode(result)
                  IN IF v = TypeError
                     THEN /\ elementDetails' = result
                          /\ uncaught' = TypeError
                     ELSE /\ elementDetails' = SetField(result, "layoutMode", v)
                          /\ uncaught' = Null
    /\ UNCHANGED <<selected, mounted>>

Next ==
    \/ OnMount
    \/ \E node \in PageNodes : SelectionChanged(node)
    \/ Evaluate
    \/ Callback

Spec == Init /\ [][Next]_vars

(* One inspection of one element, over every snapshot: the panel is        *)
(* mounted, the script runs and the callback classifies its result.        *)
InitSnapshot ==
    /\ element = ""
    /\ elementDetails = Null
    /\ selected \in {ElementNode("DIV", cs) : cs \in Snapshots} \cup {TextNode, NoNode}
    /\ pending = <<>>
    /\ mounted = FALSE
    /\ uncaught = Null

NextSnapshot ==
    \/ OnMount
    \/ Evaluate
    \/ Callback

SpecSnapshot == InitSnapshot /\ [][NextSnapshot]_vars

----------------------------------------------------------------------------
(* What the claims speak of.                                               *)

\* The callback has classified the snapshot of an inspected element.
Classified ==
    /\ "computedStyles" \in DOMAIN elementDetails
    /\ "layoutMode" \in DOMAIN elementDetails

\* The classified snapshot and the verdict stored for it (line 163).
styles == elementDetails["computedStyles"]
verdict == elementDetails["layoutMode"]

Has(cs, key) == key \in DOMAIN cs

Without(cs, key) == [k \in DOMAIN cs \ {key} |-> cs[k]]

PositionedValues == {"absolute", "fixed", "sticky"}
FlexValues == {"flex", "inline-flex"}
GridValues == {"grid", "inline-grid"}
TableValues == {"table", "inline-table", "table-row", "table-cell"}
Modes == {"Positioned", "Flexbox", "Grid", "Table", "Float", "Flow"}

HasIn(cs, key, values) == Has(cs, key) /\ cs[key] \in values

\* The snapshot gets as far as the float step of the decision order.
ReachesFloatStep(cs) ==
    /\ ~HasIn(cs, "position", PositionedValues)
    /\ ~HasIn(cs, "display", FlexValues \cup GridValues \cup TableValues)

\* C1: a snapshot whose position is absolute, fixed or sticky is classified
\* Positioned with that position as variant, whatever display and float are.
C1_PositionedWins ==
    (Classified /\ HasIn(styles, "position", PositionedValues))
        => /\ verdict.mode = "Positioned"
           /\ verdict.variant = styles["position"]

\* position: absolute with display: grid has been classified, as Positioned.
C1_Witness ==
    /\ Classified
    /\ Is(styles, "position", "absolute")
    /\ Is(styles, "display", "grid")
    /\ Has(styles, "float")
    /\ verdict.mode = "Positioned"

\* C2: with position absent or not absolute/fixed/sticky, a flex, grid or
\* table display value decides the mode (Flexbox, Grid, Table) with the
\* display value as variant, also when float is left or right.
C2_DisplayBeforeFloat ==
    (Classified /\ ~HasIn(styles, "position", PositionedValues))
        => /\ HasIn(styles, "display", FlexValues)
                => verdict.mode = "Flexbox" /\ verdict.variant = styles["display"]
           /\ HasIn(styles, "display", GridValues)
                => verdict.mode = "Grid" /\ verdict.variant = styles["display"]
           /\ HasIn(styles, "display", TableValues)
                => verdict.mode = "Table" /\ verdict.variant = styles["display"]

\* display: table-cell with float: left and position: relative has been
\* classified, as Table.
C2_Witness ==
    /\ Classified
    /\ Is(styles, "position", "relative")
    /\ Is(styles, "display", "table-cell")
    /\ Is(styles, "float", "left")
    /\ verdict.mode = "Table"

\* C3 as claimed: a snapshot that reaches the float step is classified Float,
\* with the float value as variant, exactly when the float key is present
\* with a value other than "none"; and float: "none" gives the verdict of the
\* same snapshot without the float key.
C3_FloatIffPresentNotNone ==
    (Classified /\ ReachesFloatStep(styles))
        => /\ (Has(styles, "float") /\ styles["float"] # "none")
                => verdict.mode = "Float" /\ verdict.variant = styles["float"]
           /\ ~(Has(styles, "float") /\ styles["float"] # "none")
                => verdict.mode # "Float"
           /\ Is(styles, "float", "none")
                => verdict = evaluateCssLayoutMode(
                                [computedStyles |-> Without(styles, "float")])

\* C3 as amended: a snapshot that reaches the float step is classified Float,
\* with the float value as variant, exactly when the float key is present
\* with a non-empty value other than "none"; and float: "none" gives the
\* verdict of the same snapshot without the float key.
C3_FloatIffNonEmptyNotNone ==
    (Classified /\ ReachesFloatStep(styles))
        => /\ (Has(styles, "float") /\ styles["float"] \notin {"", "none"})
                => verdict.mode = "Float" /\ verdict.variant = styles["float"]
           /\ ~(Has(styles, "float") /\ styles["float"] \notin {"", "none"})
                => verdict.mode # "Float"
           /\ Is(styles, "float", "none")
                => verdict = evaluateCssLayoutMode(
                                [computedStyles |-> Without(styles, "float")])

\* display: block with float: right has been classified, as Float with
\* variant right.
C3_Witness ==
    /\ Classified
    /\ ReachesFloatStep(styles)
    /\ Is(styles, "display", "block")
    /\ Is(styles, "float", "right")
    /\ verdict.mode = "Float"
    /\ verdict.variant = "right"

\* C4: the classifier is total: on every snapshot, the empty one and those
\* with unrecognised values included, it throws nothing and returns one
\* verdict, whose mode is one of the six.
C4_Total ==
    "computedStyles" \in DOMAIN elementDetails
        => /\ uncaught = Null
           /\ Classified
           /\ DOMAIN verdict = {"mode", "variant", "details"}
           /\ verdict.mode \in Modes

\* The empty snapshot has been classified.
C4_Witness ==
    /\ Classified
    /\ DOMAIN styles = {}
    /\ verdict.mode \in Modes

\* The snapshot matches none of the branches before the flow branches, as C5
\* words it: float absent or "none".
ReachesFlowStep(cs) ==
    /\ ReachesFloatStep(cs)
    /\ ~Has(cs, "float") \/ Is(cs, "float", "none")

\* C5 as claimed: a snapshot that matches none of the earlier branches is
\* classified Flow; the variant is the display value, or "unknown" when
\* display is missing; the empty snapshot gets Flow, "unknown" and the
\* default description.
C5_FlowVariantIsDisplay ==
    (Classified /\ ReachesFlowStep(styles))
        => /\ verdict.mode = "Flow"
           /\ verdict.variant =
                IF Has(styles, "display") THEN styles["display"] ELSE "unknown"
           /\ DOMAIN styles = {}
                => verdict = [mode |-> "Flow", variant |-> "unknown",
                              details |-> DefaultDetails]

\* C5 as amended: as claimed, with the variant "unknown" when display is
\* missing or the empty string.
C5_FlowVariantIsDisplayOrUnknown ==
    (Classified /\ ReachesFlowStep(styles))
        => /\ verdict.mode = "Flow"
           /\ verdict.variant =
                IF Has(styles, "display") /\ styles["display"] # ""
                THEN styles["display"] ELSE "unknown"
           /\ DOMAIN styles = {}
                => verdict = [mode |-> "Flow", variant |-> "unknown",
                              details |-> DefaultDetails]

\* A snapshot with an unrecognised display value has been classified, as
\* Flow with that value as variant.
C5_Witness ==
    /\ Classified
    /\ ReachesFlowStep(styles)
    /\ Is(styles, "display", "flow-root")
    /\ verdict.mode = "Flow"
    /\ verdict.variant = "flow-root"

\* The nine fixed texts of the classifier.
FixedDetails ==
    {PositionedDetails, FlexboxDetails, GridDetails, TableDetails, FloatDetails,
     BlockDetails, InlineDetails, InlineBlockDetails, DefaultDetails}

\* The branch a verdict was returned by, read off its mode and, for Flow,
\* its variant.
BranchOf(v) ==
    IF v.mode = "Flow"
    THEN IF v.variant \in {"block", "inline", "inline-block"}
         THEN v.variant ELSE "default"
    ELSE v.mode

\* C7: the details text is one of the nine fixed texts, is no value of the
\* snapshot, and is the same for every snapshot that matches the same branch.
C7_DetailsFixedPerBranch ==
    Classified
        => /\ verdict.details \in FixedDetails
           /\ \A k \in DOMAIN styles : styles[k] # verdict.details
           /\ \A cs \in Snapshots :
                LET other == evaluateCssLayoutMode([computedStyles |-> cs])
                IN BranchOf(other) = BranchOf(verdict)
                      => other.details = verdict.details

\* A snapshot with an unrecognised display value has been classified by the
\* final branch and carries the default text.
C7_Witness ==
    /\ Classified
    /\ Is(styles, "display", "contents")
    /\ BranchOf(verdict) = "default"
    /\ verdict.details = DefaultDetails

\* What the panel shows for a node once its eval result has been handled.
HeadingOf(node) ==
    IF node = NoNode THEN "No element selected"
    ELSE IF node.nodeType = "element" THEN toLowerCase(node.tagName)
    ELSE "Error getting element"

VerdictOf(node) ==
    IF node.nodeType = "element"
    THEN evaluateCssLayoutMode([computedStyles |-> node.style])
    ELSE Null

\* The verdict the markup renders (lines 195-210): none when the derived
\* value is null or could not be computed.
ShownVerdict == IF layoutMode = TypeError THEN Null ELSE layoutMode

\* C8: once every outstanding eval callback has fired, the heading and the
\* verdict on display are those of the most recent selection.
C8_ShowsLatestSelection ==
    (mounted /\ pending = <<>>)
        => /\ element = HeadingOf(selected)
           /\ ShownVerdict = VerdictOf(selected)

\* C9: the classifier is only invoked on an object that has computedStyles,
\* by the callback and by the derived layoutMode alike, and no invocation
\* fails.
C9_ClassifierGetsSnapshot ==
    /\ uncaught = Null
    /\ elementDetails # Null => "computedStyles" \in DOMAIN elementDetails
    /\ layoutMode # TypeError

\* C10: the heading and the details on display come from the same eval
\* result: the details of an inspected element stand under the heading of
\* that element, and under the heading "Error getting element" no details
\* or verdict of a previously inspected element remain.
C10_HeadingMatchesDetails ==
    /\ element = "Error getting element"
         => "tagName" \notin DOMAIN elementDetails /\ ShownVerdict = Null
    /\ "tagName" \in DOMAIN elementDetails
         => element = toLowerCase(elementDetails["tagName"])

====
